---- MODULE Spec2Model ----
(***************************************************************************)
(* Model of the criteria-tree combiner (getDataCollectorQuery, walkTree,   *)
(* buildQueryTree, addOneToMultiMap in src/cdc.service.ts) and of the      *)
(* secondary tree indexer (QueryTreeContainer in src/unnamed/part_000).    *)
(*                                                                         *)
(* Objects are named by strings.  Object-valued maps (Map<string, Query>)  *)
(* are functions from ids to ids; an absent optional value is Undefined.   *)
(* The fields a call mutates (Query.groups, Query.sortDirection) are the   *)
(* variables groups and sortDirection; the fields it only reads are kept   *)
(* in the input variables answerMap, questionMap and nodes.                *)
(***************************************************************************)
EXTENDS Integers, Sequences, FiniteSets, TLC

VARIABLES
    answerMap,               \* id -> Answer, as loaded (hidden, question, query)
    questionMap,             \* id -> Question, as loaded (questionType, sortDirection)
    nodes,                   \* id -> Query as stored (parent, answer, disabled, collect, category)
    origSort,                \* the sortDirection every Query carries before the call
    pc,                      \* position of getDataCollectorQuery
    rootQueries,             \* the root set, in answer order
    fetchCalls,              \* number of findDescendantsForEntities invocations
    terms,                   \* the flat descendant list that is returned
    termMap,                 \* keys of the id -> Query map that is returned
    tree,                    \* parent id -> children (local of getDataCollectorQuery)
    combinedQuery,           \* the returned combined root
    groups,                  \* Query.groups of every node
    sortDirection,           \* Query.sortDirection of every node
    termToAnswerMap,
    answerToTermsMap,
    collectedChildrenMap,
    questionCombinedQueries,
    rootNode,                \* argument of new QueryTreeContainer(rootNode)
    qnodes,                  \* the tree handed to the container: key -> Query
    built,                   \* the constructor has run
    container                \* the private lists of the QueryTreeContainer

cdcVars == <<answerMap, questionMap, nodes, origSort, pc, rootQueries, fetchCalls,
             terms, termMap, tree, combinedQuery, groups, sortDirection,
             termToAnswerMap, answerToTermsMap, collectedChildrenMap,
             questionCombinedQueries>>

qtcVars == <<rootNode, qnodes, built, container>>

vars == <<cdcVars, qtcVars>>

----------------------------------------------------------------------------
\* Bounds of the model

\* descendant criteria nodes held by the repository
MaxDesc == 2

\* non-root nodes of a tree handed to the QueryTreeContainer
MaxNodes == 3

----------------------------------------------------------------------------
\* Values and identifiers

Undefined == "undefined"

AnswerOrder == <<"a1", "a2">>

AnswerIds == {AnswerOrder[i] : i \in 1..Len(AnswerOrder)}

QuestionIds == {"q1", "q2"}

RootOf == [a \in AnswerIds |-> IF a = "a1" THEN "r1" ELSE "r2"]

RootIds == {RootOf[a] : a \in AnswerIds}

DescName == <<"d1", "d2", "d3", "d4", "d5">>

DescOrder == [i \in 1..MaxDesc |-> DescName[i]]

DescIds == {DescName[i] : i \in 1..MaxDesc}

NodeIds == RootIds \cup DescIds

SearchCategoryType == [Demographic |-> 0, Appointment |-> 1, Measurement |-> 2, Procedure |-> 3]

QuestionType == {"SingleAnswer", "MultipleChoiceSingleAnswer", "Repeated"}

QueryMatchType == {"Any", "All", "None", "NoneAll"}

SortDirection == {"Ascending", "Descending"}

----------------------------------------------------------------------------
\* Map<K, V> as a function with a growing domain

EmptyMap == [k \in {} |-> k]

MapGet(map, key, default) == IF key \in DOMAIN map THEN map[key] ELSE default

MapSet(map, key, value) == [k \in DOMAIN map \cup {key} |-> IF k = key THEN value ELSE map[k]]

addOneToMultiMap(map, key, value) ==
    IF key \in DOMAIN map
    THEN [map EXCEPT ![key] = Append(@, value)]
    ELSE MapSet(map, key, <<value>>)

Range(seq) == {seq[i] : i \in 1..Len(seq)}

\* JavaScript truthiness of an optional numeric enum value: undefined and 0 are falsy
TruthyCategory(category) ==
    /\ category # Undefined
    /\ SearchCategoryType[category] # 0

----------------------------------------------------------------------------
\* getDataCollectorQuery: the root set

\* questionMap.get(answer.question.id)?.questionType
LookupQuestionType(questionId) ==
    IF questionId \in DOMAIN questionMap
    THEN questionMap[questionId].questionType
    ELSE Undefined

\* the callback of answers.map(...): the answer's query, or nothing
MapAnswer(answer) ==
    IF answer.question # Undefined /\ answer.hidden
    THEN IF LookupQuestionType(answer.question) # "MultipleChoiceSingleAnswer"
         THEN Undefined
         ELSE answer.query
    ELSE answer.query

IsQuery(query) == query # Undefined

SelectRootQueries ==
    SelectSeq([i \in 1..Len(AnswerOrder) |-> MapAnswer(answerMap[AnswerOrder[i]])], IsQuery)

----------------------------------------------------------------------------
\* The repository: every stored node below one of the given roots

RECURSIVE RootAbove(_)
RootAbove(id) ==
    IF id \in RootIds THEN id
    ELSE IF id \notin DescIds THEN Undefined
    ELSE RootAbove(nodes[id].parent)

findDescendantsForEntities(queries, withRoots) ==
    LET Below(d) == RootAbove(d) \in Range(queries)
    IN  (IF withRoots THEN queries ELSE <<>>) \o SelectSeq(DescOrder, Below)

----------------------------------------------------------------------------
\* buildQueryTree

IndexTermById(acc, term) ==
    [tree    |-> addOneToMultiMap(acc.tree, term, term),
     termMap |-> acc.termMap \cup {term}]

IndexTerm(acc, term) ==
    IF nodes[term].parent = Undefined
    THEN acc
    ELSE [tree    |-> addOneToMultiMap(acc.tree, nodes[term].parent, term),
          termMap |-> acc.termMap \cup {term}]

RECURSIVE BuildFrom(_, _, _)
BuildFrom(list, i, acc) ==
    IF i > Len(list) THEN acc
    ELSE BuildFrom(list, i + 1, IndexTerm(acc, list[i]))

buildQueryTree(list) == BuildFrom(list, 1, [tree |-> EmptyMap, termMap |-> {}])

----------------------------------------------------------------------------
\* walkTree.  ix holds what the walk mutates: the two Query fields and the
\* three indexes.

KeepSortDirection(sorts, term, question) == sorts

SetSortDirection(sorts, term, question) ==
    [sorts EXCEPT ![term] = questionMap[question].sortDirection]

StopsOnlyWithoutChildren(term, children) == Len(children) = 0

StopsAt(term, children) == nodes[term].disabled \/ Len(children) = 0

SkipsChild(child) == nodes[child].disabled

HasCollected(children) == \E i \in 1..Len(children) : nodes[children[i]].collect

RECURSIVE walkTree(_, _, _, _, _)
RECURSIVE WalkChildren(_, _, _, _, _, _)

walkTree(term, answer, question, treeMap, ix) ==
    LET children == MapGet(treeMap, term, <<>>)
        ix1 == [ix EXCEPT !.sortDirection    = SetSortDirection(@, term, question),
                          !.termToAnswerMap  = MapSet(@, term, answer),
                          !.answerToTermsMap = addOneToMultiMap(@, answer, term),
                          !.groups[term]     = children]
    IN  IF StopsAt(term, children)
        THEN ix1
        ELSE LET ix2 == WalkChildren(children, 1, answer, question, treeMap, ix1)
             IN  IF TruthyCategory(nodes[term].category)
                 THEN [ix2 EXCEPT !.collectedChildrenMap =
                                      MapSet(@, term, HasCollected(children))]
                 ELSE ix2

WalkChildren(children, i, answer, question, treeMap, ix) ==
    IF i > Len(children) THEN ix
    ELSE WalkChildren(children, i + 1, answer, question, treeMap,
                      IF SkipsChild(children[i])
                      THEN ix
                      ELSE walkTree(children[i], answer, question, treeMap, ix))

----------------------------------------------------------------------------
\* getDataCollectorQuery: the loop over the root set

ResolveAnswer(rootQuery) ==
    IF nodes[rootQuery].answer # Undefined /\ nodes[rootQuery].answer \in DOMAIN answerMap
    THEN nodes[rootQuery].answer
    ELSE Undefined

ResolveQuestion(answer) ==
    IF /\ answer # Undefined
       /\ answerMap[answer].question # Undefined
       /\ answerMap[answer].question \in DOMAIN questionMap
    THEN answerMap[answer].question
    ELSE Undefined

AttachSkippedRoot(st, rootQuery) == [st EXCEPT !.combined = Append(@, rootQuery)]

SkipRoot(st, rootQuery) == st

\* the children of a root are walked whether or not they are disabled
RECURSIVE WalkRootChildren(_, _, _, _, _, _)
WalkRootChildren(children, i, answer, question, treeMap, ix) ==
    IF i > Len(children) THEN ix
    ELSE WalkRootChildren(children, i + 1, answer, question, treeMap,
                          walkTree(children[i], answer, question, treeMap, ix))

AttachRoot(st, rootQuery, answer, question, treeMap) ==
    LET children == MapGet(treeMap, rootQuery, <<>>)
        ix1 == [st.ix EXCEPT !.groups[rootQuery] = children]
    IN  [combined |-> Append(st.combined, rootQuery),
         ix       |-> WalkRootChildren(children, 1, answer, question, treeMap, ix1),
         questionCombinedQueries |->
             addOneToMultiMap(st.questionCombinedQueries, question, rootQuery)]

RECURSIVE ProcessRoots(_, _, _, _)
ProcessRoots(queries, i, treeMap, st) ==
    IF i > Len(queries) THEN st
    ELSE LET rootQuery == queries[i]
             answer    == ResolveAnswer(rootQuery)
             question  == ResolveQuestion(answer)
         IN  ProcessRoots(queries, i + 1, treeMap,
                          IF answer = Undefined \/ question = Undefined
                          THEN SkipRoot(st, rootQuery)
                          ELSE AttachRoot(st, rootQuery, answer, question, treeMap))

NoQuery == [defined |-> FALSE, match |-> Undefined, groups |-> <<>>]

----------------------------------------------------------------------------
\* getDataCollectorQuery: the two continuations

\* Resumes after getSectionsQuestionsAndAnswers: computes the root set, then
\* either returns the empty result or issues the descendant fetch.
LoadAndSelectAlwaysFetch ==
    /\ pc = "start"
    /\ rootQueries' = SelectRootQueries
    /\ pc' = "awaitDescendants"
    /\ fetchCalls' = fetchCalls + 1
    /\ UNCHANGED <<answerMap, questionMap, nodes, origSort, terms, termMap, tree,
                   combinedQuery, groups, sortDirection, termToAnswerMap,
                   answerToTermsMap, collectedChildrenMap, questionCombinedQueries>>
    /\ UNCHANGED qtcVars

LoadAndSelect ==
    /\ pc = "start"
    /\ rootQueries' = SelectRootQueries
    /\ IF Len(SelectRootQueries) = 0
       THEN /\ pc' = "done"
            /\ fetchCalls' = fetchCalls
       ELSE /\ pc' = "awaitDescendants"
            /\ fetchCalls' = fetchCalls + 1
    /\ UNCHANGED <<answerMap, questionMap, nodes, origSort, terms, termMap, tree,
                   combinedQuery, groups, sortDirection, termToAnswerMap,
                   answerToTermsMap, collectedChildrenMap, questionCombinedQueries>>
    /\ UNCHANGED qtcVars

\* Resumes after findDescendantsForEntities: builds the parent index, the
\* combined root and the indexes, and returns.  The loop over
\* questionCombinedQueries that follows only fills a local map and is not
\* observable.
FetchAndCombine ==
    /\ pc = "awaitDescendants"
    /\ \E withRoots \in BOOLEAN :
          LET fetched == findDescendantsForEntities(rootQueries, withRoots)
              index   == buildQueryTree(fetched)
              st0     == [combined |-> <<>>,
                          ix |-> [sortDirection        |-> sortDirection,
                                  groups               |-> groups,
                                  termToAnswerMap      |-> termToAnswerMap,
                                  answerToTermsMap     |-> answerToTermsMap,
                                  collectedChildrenMap |-> collectedChildrenMap],
                          questionCombinedQueries |-> questionCombinedQueries]
              st      == ProcessRoots(rootQueries, 1, index.tree, st0)
          IN  /\ terms' = fetched
              /\ tree' = index.tree
              /\ termMap' = index.termMap
              /\ combinedQuery' = [defined |-> TRUE, match |-> "Any", groups |-> st.combined]
              /\ groups' = st.ix.groups
              /\ sortDirection' = st.ix.sortDirection
              /\ termToAnswerMap' = st.ix.termToAnswerMap
              /\ answerToTermsMap' = st.ix.answerToTermsMap
              /\ collectedChildrenMap' = st.ix.collectedChildrenMap
              /\ questionCombinedQueries' = st.questionCombinedQueries
    /\ pc' = "done"
    /\ UNCHANGED <<answerMap, questionMap, nodes, origSort, rootQueries, fetchCalls>>
    /\ UNCHANGED qtcVars

----------------------------------------------------------------------------
\* QueryTreeContainer.  A node of the tree is named by a key (its object
\* identity); its id field may be missing (the synthetic combined root is
\* created without one).  category is an optional string.

RootKey == "t0"

QKeyName == <<"t1", "t2", "t3", "t4", "t5">>

QKeyOrder == [i \in 1..MaxNodes |-> QKeyName[i]]

InnerKeys == {QKeyName[i] : i \in 1..MaxNodes}

QKeys == {RootKey} \cup InnerKeys

\* JavaScript truthiness of an optional string: undefined and "" are falsy
TruthyString(value) == value # Undefined /\ value # ""

EmptyContainer == [groups |-> <<>>, terms |-> <<>>, parentTerms |-> <<>>,
                   termsByNestedTerm |-> <<>>]

HasId(node) == TruthyString(qnodes[node].id)

HasAnyCategory(node) == qnodes[node].category # Undefined

HasCategory(node) == TruthyString(qnodes[node].category)

NeverNested(parentNode) == FALSE

ParentHasCategory(parentNode) ==
    /\ parentNode # Undefined
    /\ TruthyString(qnodes[parentNode].id)
    /\ TruthyString(qnodes[parentNode].category)

ClassifyNode(node, parentNode, c) ==
    IF ~HasId(node) THEN c
    ELSE IF HasCategory(node)
    THEN LET c1 == [c EXCEPT !.terms = Append(@, node)]
         IN  IF ParentHasCategory(parentNode)
             THEN [c1 EXCEPT !.termsByNestedTerm = Append(@, parentNode)]
             ELSE IF ~qnodes[node].disabled
             THEN [c1 EXCEPT !.parentTerms = Append(@, node)]
             ELSE c1
    ELSE [c EXCEPT !.groups = Append(@, node)]

RECURSIVE indexTree(_, _, _)
RECURSIVE IndexGroups(_, _, _, _)

indexTree(node, parentNode, c) ==
    IF node = Undefined THEN c
    ELSE IndexGroups(qnodes[node].groups, 1, node, ClassifyNode(node, parentNode, c))

IndexGroups(children, i, node, c) ==
    IF i > Len(children) THEN c
    ELSE IndexGroups(children, i + 1, node, indexTree(children[i], node, c))

\* new QueryTreeContainer(rootNode)
Construct ==
    /\ ~built
    /\ built' = TRUE
    /\ container' = indexTree(rootNode, Undefined, EmptyContainer)
    /\ UNCHANGED <<rootNode, qnodes>>
    /\ UNCHANGED cdcVars

\* Array.prototype.find on a list of nodes, by id
FindById(list, id) ==
    LET Matches(t) == qnodes[t].id = id
        hits == SelectSeq(list, Matches)
    IN  IF Len(hits) = 0 THEN Undefined ELSE hits[1]

getAllTerms == container.terms

getParentTerms == container.parentTerms

getTerm(termId) == FindById(container.terms, termId)

getGroup(groupId) == FindById(container.groups, groupId)

getParentTerm(termId) == FindById(container.termsByNestedTerm, termId)

----------------------------------------------------------------------------
\* Initial states: the inputs of one call, drawn from bounded sets

DescIndex(d) == CHOOSE i \in 1..MaxDesc : DescName[i] = d

Rank(id) == IF id = "r1" THEN 1 ELSE IF id = "r2" THEN 2 ELSE 2 + DescIndex(id)

\* Forests over the roots, one per relabelling: a parent precedes its
\* children and the parents are listed in non-decreasing order.
Shapes ==
    {par \in [DescIds -> NodeIds] :
        /\ \A d \in DescIds : Rank(par[d]) < Rank(d)
        /\ \A d, e \in DescIds : DescIndex(d) < DescIndex(e) => Rank(par[d]) <= Rank(par[e])}

StoredNodes(par, refs, dis, col, cat) ==
    [id \in NodeIds |->
        IF id \in RootIds
        THEN [parent |-> Undefined, answer |-> refs[id], disabled |-> FALSE,
              collect |-> FALSE, category |-> Undefined]
        ELSE [parent |-> par[id], answer |-> Undefined, disabled |-> dis[id],
              collect |-> col[id], category |-> cat[id]]]

Categories == {Undefined, "Demographic", "Measurement"}

AnswerMaps ==
    {am \in [AnswerIds -> [hidden : BOOLEAN,
                           question : QuestionIds \cup {Undefined},
                           query : RootIds \cup {Undefined}]] :
        \A a \in AnswerIds : am[a].query \in {RootOf[a], Undefined}}

\* the root's own back-reference to its answer may be missing
RootRefs(am) ==
    {refs \in [RootIds -> AnswerIds \cup {Undefined}] :
        \A a \in AnswerIds :
            /\ refs[RootOf[a]] \in {a, Undefined}
            /\ am[a].query = Undefined => refs[RootOf[a]] = a}

InitProgram ==
    /\ pc = "start"
    /\ rootQueries = <<>>
    /\ fetchCalls = 0
    /\ terms = <<>>
    /\ termMap = {}
    /\ tree = EmptyMap
    /\ combinedQuery = NoQuery
    /\ groups = [id \in NodeIds |-> <<>>]
    /\ sortDirection = [id \in NodeIds |-> origSort]
    /\ termToAnswerMap = EmptyMap
    /\ answerToTermsMap = EmptyMap
    /\ collectedChildrenMap = EmptyMap
    /\ questionCombinedQueries = EmptyMap

NoContainer ==
    /\ rootNode = Undefined
    /\ qnodes = EmptyMap
    /\ built = TRUE
    /\ container = EmptyContainer

\* Walker inputs: both questions loaded, every attribute of every descendant free
Init ==
    /\ questionMap = [q \in QuestionIds |->
                         IF q = "q1"
                         THEN [questionType |-> "SingleAnswer", sortDirection |-> "Ascending"]
                         ELSE [questionType |-> "Repeated", sortDirection |-> "Descending"]]
    /\ answerMap \in {am \in AnswerMaps :
                         /\ \A a \in AnswerIds : ~am[a].hidden
                         /\ am["a1"].question = "q1" /\ am["a1"].query = "r1"
                         /\ am["a2"].question = "q2"}
    /\ origSort \in SortDirection
    /\ \E par \in Shapes, refs \in RootRefs(answerMap),
          dis \in [DescIds -> BOOLEAN], col \in [DescIds -> BOOLEAN],
          cat \in [DescIds -> Categories] :
          /\ refs["r1"] = "a1"
          /\ nodes = StoredNodes(par, refs, dis, col, cat)
    /\ InitProgram
    /\ NoContainer

\* Root-selection inputs: every attribute of every answer and question free
InitSelect ==
    /\ \E t1 \in QuestionType, present \in BOOLEAN, t2 \in QuestionType :
          /\ ~present => t2 = "SingleAnswer"
          /\ questionMap = [q \in (IF present THEN QuestionIds ELSE {"q1"}) |->
                               IF q = "q1"
                               THEN [questionType |-> t1, sortDirection |-> "Ascending"]
                               ELSE [questionType |-> t2, sortDirection |-> "Descending"]]
    /\ answerMap \in AnswerMaps
    /\ origSort = "Ascending"
    /\ \E par \in Shapes, refs \in RootRefs(answerMap) :
          nodes = StoredNodes(par, refs, [d \in DescIds |-> FALSE],
                              [d \in DescIds |-> TRUE], [d \in DescIds |-> "Measurement"])
    /\ InitProgram
    /\ NoContainer

QIndex(k) == IF k = RootKey THEN 0 ELSE CHOOSE i \in 1..MaxNodes : QKeyName[i] = k

QShapes ==
    {par \in [InnerKeys -> QKeys] :
        /\ \A k \in InnerKeys : QIndex(par[k]) < QIndex(k)
        /\ \A k, l \in InnerKeys : QIndex(k) < QIndex(l) => QIndex(par[k]) <= QIndex(par[l])}

QCategories == {Undefined, "", "medication"}

ChildrenIn(par, k) ==
    LET IsChild(c) == par[c] = k
    IN  SelectSeq(QKeyOrder, IsChild)

\* Trees handed to the container: a synthetic root without id and category,
\* or a stored root; every other node is a stored node with an id.
InitContainer ==
    /\ \/ /\ rootNode = Undefined
          /\ qnodes = EmptyMap
       \/ /\ rootNode = RootKey
          /\ \E par \in QShapes, synthetic \in BOOLEAN,
                cat \in [QKeys -> QCategories], dis \in [QKeys -> BOOLEAN] :
                /\ synthetic => (cat[RootKey] = Undefined /\ ~dis[RootKey])
                /\ qnodes = [k \in QKeys |->
                               [id       |-> IF k = RootKey /\ synthetic THEN Undefined ELSE k,
                                category |-> cat[k],
                                disabled |-> dis[k],
                                parent   |-> IF k = RootKey THEN Undefined ELSE par[k],
                                groups   |-> ChildrenIn(par, k)]]
    /\ built = FALSE
    /\ container = EmptyContainer
    /\ answerMap = EmptyMap
    /\ questionMap = EmptyMap
    /\ nodes = EmptyMap
    /\ origSort = "Ascending"
    /\ pc = "idle"
    /\ rootQueries = <<>>
    /\ fetchCalls = 0
    /\ terms = <<>>
    /\ termMap = {}
    /\ tree = EmptyMap
    /\ combinedQuery = NoQuery
    /\ groups = EmptyMap
    /\ sortDirection = EmptyMap
    /\ termToAnswerMap = EmptyMap
    /\ answerToTermsMap = EmptyMap
    /\ collectedChildrenMap = EmptyMap
    /\ questionCombinedQueries = EmptyMap

----------------------------------------------------------------------------
\* Specifications

Next == LoadAndSelect \/ FetchAndCombine

Spec == Init /\ [][Next]_vars

SpecSelect == InitSelect /\ [][Next]_vars

NextContainer == Construct

SpecContainer == InitContainer /\ [][NextContainer]_vars

----------------------------------------------------------------------------
\* Vocabulary of the properties, read off the inputs and the returned tree

Done == pc = "done"

\* the root's owning answer and that answer's question are both loaded
Resolvable(rootQuery) ==
    /\ nodes[rootQuery].answer \in DOMAIN answerMap
    /\ answerMap[nodes[rootQuery].answer].question \in DOMAIN questionMap

ResolvedRoots == {r \in Range(rootQueries) : Resolvable(r)}

AnswerOfRoot(rootQuery) == nodes[rootQuery].answer

QuestionOfRoot(rootQuery) == questionMap[answerMap[nodes[rootQuery].answer].question]

RECURSIVE IsAncestor(_, _)
IsAncestor(x, d) ==
    /\ d \in DescIds
    /\ \/ nodes[d].parent = x
       \/ IsAncestor(x, nodes[d].parent)

DescendantsOf(x) == {d \in DescIds : IsAncestor(x, d)}

\* the nodes walkTree is invoked on: the children of a resolved root, and the
\* enabled children of a visited enabled node
RECURSIVE Visited(_)
Visited(n) ==
    /\ n \in DescIds
    /\ IF nodes[n].parent \in RootIds
       THEN nodes[n].parent \in ResolvedRoots
       ELSE /\ Visited(nodes[n].parent)
            /\ ~nodes[nodes[n].parent].disabled
            /\ ~nodes[n].disabled

\* the nodes reachable from n through groups in the returned tree
RECURSIVE SubtreeVia(_)
SubtreeVia(n) == {n} \cup UNION {SubtreeVia(groups[n][i]) : i \in 1..Len(groups[n])}

Occurrences(seq, x) == Cardinality({i \in 1..Len(seq) : seq[i] = x})

Registered(d, answer) ==
    /\ d \in DOMAIN termToAnswerMap
    /\ termToAnswerMap[d] = answer
    /\ answer \in DOMAIN answerToTermsMap
    /\ Occurrences(answerToTermsMap[answer], d) = 1

InIndexes(d) ==
    \/ d \in DOMAIN termToAnswerMap
    \/ \E a \in DOMAIN answerToTermsMap : d \in Range(answerToTermsMap[a])

Owners(n) == {m \in NodeIds : n \in Range(groups[m])}

\* groups of the parent has been assigned from the parent index
ParentPopulated(n) ==
    IF nodes[n].parent \in RootIds
    THEN nodes[n].parent \in ResolvedRoots
    ELSE Visited(nodes[n].parent)

----------------------------------------------------------------------------
\* C1: for every answer with an attached criteria node, the node is in the
\* root set exactly when it is not the case that the answer is hidden and the
\* owning question's type differs from MultipleChoiceSingleAnswer; nothing
\* else is in the root set.
C1_RootInclusionRule ==
    pc # "start" =>
        /\ \A a \in AnswerIds :
              answerMap[a].query # Undefined =>
                  (answerMap[a].query \in Range(rootQueries)
                      <=> ~(/\ answerMap[a].hidden
                            /\ LookupQuestionType(answerMap[a].question)
                                   # "MultipleChoiceSingleAnswer"))
        /\ Range(rootQueries) \subseteq {answerMap[a].query : a \in AnswerIds} \ {Undefined}

----------------------------------------------------------------------------
\* C2, as claimed: every node of the returned subtree of a resolved root query,
\* the root query included, carries the sortDirection of the answer's question.
C2_WholeSubtreeInheritsSort ==
    Done =>
        \A r \in ResolvedRoots : \A n \in SubtreeVia(r) :
            sortDirection[n] = QuestionOfRoot(r).sortDirection

\* C2, amended: every node the walker visits carries the sortDirection of the
\* question of the answer whose root query it is under, whatever it carried
\* before; every other node (the root queries, disabled children below the
\* first level, everything under a disabled node or a skipped root) keeps the
\* value it carried.
C2_VisitedInheritSort ==
    Done =>
        \A n \in NodeIds :
            IF Visited(n)
            THEN sortDirection[n] = QuestionOfRoot(RootAbove(n)).sortDirection
            ELSE sortDirection[n] = origSort

C2_Witness ==
    /\ Done
    /\ \E n \in DescIds :
          /\ Visited(n)
          /\ nodes[n].parent \in DescIds
          /\ sortDirection[n] # origSort

----------------------------------------------------------------------------
\* C3, as claimed: every disabled descendant of a resolved root query is
\* registered in term->answer under the root's answer and appended to that
\* answer's answer->terms list, and none of its own descendants is in either
\* index.
C3_EveryDisabledRegistered ==
    Done =>
        \A d \in DescIds :
            (nodes[d].disabled /\ RootAbove(d) \in ResolvedRoots) =>
                /\ Registered(d, AnswerOfRoot(RootAbove(d)))
                /\ \A x \in DescendantsOf(d) : ~InIndexes(x)

\* C3, amended: a disabled node that is a direct child of a resolved root query
\* is registered in term->answer under the root's answer and appended once to
\* that answer's answer->terms list; a disabled node deeper in the subtree is in
\* neither index; and no descendant of a disabled node is in either index.
C3_DisabledChildOfRootRegistered ==
    Done =>
        \A d \in DescIds :
            (nodes[d].disabled /\ RootAbove(d) \in ResolvedRoots) =>
                /\ nodes[d].parent \in RootIds => Registered(d, AnswerOfRoot(RootAbove(d)))
                /\ nodes[d].parent \notin RootIds => ~InIndexes(d)
                /\ \A x \in DescendantsOf(d) : ~InIndexes(x)

C3_Witness ==
    /\ Done
    /\ \E d \in DescIds :
          /\ nodes[d].disabled
          /\ nodes[d].parent \in ResolvedRoots
          /\ Registered(d, AnswerOfRoot(nodes[d].parent))
          /\ DescendantsOf(d) # {}

----------------------------------------------------------------------------
\* C4, for a visited node that is not disabled: a node with a category (any
\* value of SearchCategoryType, Demographic included) and at least one child in
\* the parent index has a collected-children entry equal to "some direct child
\* has collect = true"; a category node without children has no entry.
C4_CollectedChildrenEntry ==
    Done =>
        \A n \in DescIds :
            nodes[n].category # Undefined =>
                /\ (Visited(n) /\ ~nodes[n].disabled /\ n \in DOMAIN tree) =>
                      /\ n \in DOMAIN collectedChildrenMap
                      /\ collectedChildrenMap[n]
                             = (\E c \in Range(tree[n]) : nodes[c].collect)
                /\ n \notin DOMAIN tree => n \notin DOMAIN collectedChildrenMap

----------------------------------------------------------------------------
\* C6: with an empty root set the call returns an undefined combined tree,
\* empty answer->terms, term->answer, id->node and collected-children maps and
\* an empty descendant list, and findDescendantsForEntities is never invoked.
C6_EmptyRootSet ==
    (pc # "start" /\ Len(rootQueries) = 0) =>
        /\ Done
        /\ ~combinedQuery.defined
        /\ answerToTermsMap = EmptyMap
        /\ termToAnswerMap = EmptyMap
        /\ termMap = {}
        /\ collectedChildrenMap = EmptyMap
        /\ terms = <<>>
        /\ fetchCalls = 0

C6_Witness ==
    /\ Done
    /\ Len(rootQueries) = 0
    /\ \E a \in AnswerIds : answerMap[a].query # Undefined

----------------------------------------------------------------------------
\* C9: with a non-empty root set the call returns a combined root with match =
\* Any whose groups are the root queries in root-set order without those whose
\* answer or question cannot be resolved; no descendant of a skipped root is in
\* term->answer, answer->terms or collected-children; and the call returns
\* that combined root (it has no failure exit: a skipped root is a `continue`).
C9_UnresolvedRootsSkipped ==
    (Done /\ Len(rootQueries) > 0) =>
        /\ combinedQuery.defined
        /\ combinedQuery.match = "Any"
        /\ combinedQuery.groups = SelectSeq(rootQueries, Resolvable)
        /\ \A r \in Range(rootQueries) \ ResolvedRoots :
              /\ r \notin Range(combinedQuery.groups)
              /\ \A d \in DescendantsOf(r) :
                    /\ ~InIndexes(d)
                    /\ d \notin DOMAIN collectedChildrenMap

C9_Witness ==
    /\ Done
    /\ Len(combinedQuery.groups) = 1
    /\ \E r \in Range(rootQueries) \ ResolvedRoots : DescendantsOf(r) \cap Range(terms) # {}
    /\ \E r \in ResolvedRoots : DescendantsOf(r) \cap DOMAIN termToAnswerMap # {}

----------------------------------------------------------------------------
----------------------------------------------------------------------------
\* Vocabulary of the container properties

Indexed == built /\ rootNode # Undefined

RECURSIVE PreOrder(_)
RECURSIVE PreOrderAll(_, _)

PreOrder(k) == <<k>> \o PreOrderAll(qnodes[k].groups, 1)

PreOrderAll(children, i) ==
    IF i > Len(children) THEN <<>>
    ELSE PreOrder(children[i]) \o PreOrderAll(children, i + 1)

NonEmptyCategory(k) == qnodes[k].category \notin {Undefined, ""}

NonEmptyId(k) == qnodes[k].id \notin {Undefined, ""}

IsGroupNode(k) == ~NonEmptyCategory(k)

IsIdentifiedTerm(k) == NonEmptyId(k) /\ NonEmptyCategory(k)

IsIdentifiedGroup(k) == NonEmptyId(k) /\ ~NonEmptyCategory(k)

\* a term that is not disabled and whose parent is absent or a group
IsTopLevelTerm(k) ==
    /\ NonEmptyCategory(k)
    /\ ~qnodes[k].disabled
    /\ \/ qnodes[k].parent = Undefined
       \/ ~NonEmptyCategory(qnodes[k].parent)

----------------------------------------------------------------------------
\* C5: for a term c that is a direct child of a term p, getParentTerm(c.id)
\* is p; for a term whose parent is absent or a group it is undefined.
C5_ParentTermLookup ==
    Indexed =>
        \A c \in QKeys :
            (NonEmptyCategory(c) /\ NonEmptyId(c)) =>
                getParentTerm(qnodes[c].id)
                    = (IF qnodes[c].parent # Undefined /\ NonEmptyCategory(qnodes[c].parent)
                       THEN qnodes[c].parent
                       ELSE Undefined)

----------------------------------------------------------------------------
\* C7, as claimed: every node of the tree, the root included, is in exactly one
\* of the two lists, once and in pre-order: in terms when it has a non-empty
\* category, in groups otherwise.
C7_EveryNodeClassified ==
    Indexed =>
        /\ container.terms = SelectSeq(PreOrder(rootNode), NonEmptyCategory)
        /\ container.groups = SelectSeq(PreOrder(rootNode), IsGroupNode)

\* C7, amended: every node of the tree that has a non-empty id is in exactly
\* one of the two lists, once and in pre-order: in terms when it has a
\* non-empty category, in groups otherwise; a node without an id (the synthetic
\* combined root) is in neither list.
C7_IdentifiedNodesClassified ==
    Indexed =>
        /\ container.terms = SelectSeq(PreOrder(rootNode), IsIdentifiedTerm)
        /\ container.groups = SelectSeq(PreOrder(rootNode), IsIdentifiedGroup)

C7_Witness ==
    /\ Indexed
    /\ ~NonEmptyId(rootNode)
    /\ Len(container.terms) >= 2
    /\ Len(container.groups) >= 1

----------------------------------------------------------------------------
\* C8: getParentTerms() is, in traversal order, exactly the terms that are not
\* disabled and whose parent is absent or a group; a term whose parent is a
\* term, and a disabled term, is never in it.
C8_ParentTerms ==
    /\ (built /\ rootNode = Undefined) => getParentTerms = <<>>
    /\ Indexed => getParentTerms = SelectSeq(PreOrder(rootNode), IsTopLevelTerm)

C8_Witness ==
    /\ Indexed
    /\ Len(getParentTerms) >= 1
    /\ \E k \in QKeys :
          /\ NonEmptyCategory(k)
          /\ qnodes[k].parent # Undefined
          /\ NonEmptyCategory(qnodes[k].parent)
          /\ ~qnodes[k].disabled
    /\ \E k \in QKeys :
          /\ NonEmptyCategory(k)
          /\ qnodes[k].disabled
          /\ qnodes[k].parent # Undefined
          /\ ~NonEmptyCategory(qnodes[k].parent)

====
